---------------------------- MODULE Spec2Model ----------------------------
(***************************************************************************)
(* State-machine model of ConsortDiagram (src/consort.py).                 *)
(*                                                                         *)
(* Strings are sequences of one-character strings, so that lower(),        *)
(* replace(' ', '_'), split('--') and the f-string formatting are computed  *)
(* character by character.  Numbers are fixed-point integers: the real     *)
(* value r is held as 4*r (see Real), which keeps w/2, h/2 and length/unit *)
(* exact for the inputs enumerated below.                                  *)
(*                                                                         *)
(* The canvas (schemdraw.Drawing) is the sequence `diagram` of the         *)
(* elements added to it; a box handle is the index of its element.         *)
(***************************************************************************)
EXTENDS Integers, Sequences, FiniteSets, TLC

VARIABLES diagram, boxes_obj, stage_boxes_obj, boxes_data, stage_boxes_data,
          other_data, unit, last

vars == <<diagram, boxes_obj, stage_boxes_obj, boxes_data, stage_boxes_data,
          other_data, unit, last>>

\* Everything the object owns except the record of the last call.
state == <<diagram, boxes_obj, stage_boxes_obj, boxes_data, stage_boxes_data,
           other_data, unit>>

-----------------------------------------------------------------------------
\* Bounds of the model.

\* Largest count / len(df) passed by a caller.
MaxCount == 2
\* Largest number of arrows and lines drawn on one canvas.
MaxConnectors == 1
\* Largest number of other-boxes drawn on one canvas.
MaxOtherBoxes == 1

-----------------------------------------------------------------------------
\* Numbers.

Real(n) == 4 * n

Abs(v) == IF v < 0 THEN -v ELSE v

Max2(a, b) == IF a >= b THEN a ELSE b

\* An optional float argument whose default is np.nan: <<>> is nan.
NaN == <<>>

isnan(opt) == opt = <<>>

-----------------------------------------------------------------------------
\* Strings.

Upper == [c \in {"a", "b", "r", "s", "x"} |->
            CASE c = "a" -> "A" [] c = "b" -> "B" [] c = "r" -> "R"
              [] c = "s" -> "S" [] c = "x" -> "X"]

LowerChar(c) ==
  IF \E l \in DOMAIN Upper : Upper[l] = c
  THEN CHOOSE l \in DOMAIN Upper : Upper[l] = c
  ELSE c

\* s.lower()
lower(s) == [i \in 1..Len(s) |-> LowerChar(s[i])]

\* s.replace(' ', '_')
replace_space(s) == [i \in 1..Len(s) |-> IF s[i] = " " THEN "_" ELSE s[i]]

\* key.lower().replace(' ', '_')
var_name_of(key) == replace_space(lower(key))

\* Index of the first "--" in s at or after position i, 0 when there is none.
RECURSIVE FindDD(_, _)
FindDD(s, i) ==
  IF i + 1 > Len(s) THEN 0
  ELSE IF s[i] = "-" /\ s[i + 1] = "-" THEN i
  ELSE FindDD(s, i + 1)

\* s.split('--'): the parts between leftmost non-overlapping "--".
RECURSIVE split(_)
split(s) ==
  LET i == FindDD(s, 1) IN
  IF i = 0 THEN <<s>>
  ELSE <<SubSeq(s, 1, i - 1)>> \o split(SubSeq(s, i + 2, Len(s)))

Digit == [d \in 0..9 |->
            CASE d = 0 -> "0" [] d = 1 -> "1" [] d = 2 -> "2" [] d = 3 -> "3"
              [] d = 4 -> "4" [] d = 5 -> "5" [] d = 6 -> "6" [] d = 7 -> "7"
              [] d = 8 -> "8" [] d = 9 -> "9"]

\* str(n) of a non-negative int.
RECURSIVE str(_)
str(n) == IF n < 10 THEN <<Digit[n]>> ELSE str(n \div 10) \o <<Digit[n % 10]>>

\* f'{name} (n = {count})' with the count already a string.
Fmt(name, countStr) ==
  name \o <<" ", "(", "n", " ", "=", " ">> \o countStr \o <<")">>

\* '_'.join(parts)
RECURSIVE join_us(_)
join_us(parts) ==
  IF Len(parts) = 0 THEN <<>>
  ELSE IF Len(parts) = 1 THEN parts[1]
  ELSE parts[1] \o <<"_">> \o join_us(Tail(parts))

-----------------------------------------------------------------------------
\* dicts.

EmptyDict == [k \in {} |-> 0]

\* d[k] = v
Put(d, k, v) == (k :> v) @@ d

-----------------------------------------------------------------------------
\* Constructor arguments (defaults of __init__).

box_dimension == <<Real(14), Real(1)>>

stage_box_dimension == <<Real(3), Real(1)>>

stage_box_th == 90

\* The configured units the constructor is called with.
Units == {1, 2}


-----------------------------------------------------------------------------
\* Arguments the callers pass.

\* "A b", "a_b" and "A b--x": the first two differ in spelling only, the
\* third carries a "--" suffix.
KeyAb == <<"A", " ", "b">>

Key_a_b == <<"a", "_", "b">>

KeySfx == <<"A", " ", "b", "-", "-", "x">>

BoxKeys == {KeyAb, Key_a_b, KeySfx}

StageKeys == {KeyAb, Key_a_b}

Counts == 1..MaxCount

\* (x, y, w, h) of a box: the two rows of the spec's example, y = 10 with the
\* default size and y = 5 with an explicit size.
BoxLayouts == {<<Real(0), Real(10), NaN, NaN>>,
               <<Real(0), Real(5), <<Real(6)>>, <<Real(2)>>>>}

StagePositions == {<<Real(-4), Real(10)>>}

ThetaArgs == {NaN, <<45>>}

Dirs == {"E", "S", "W", "N"}

-----------------------------------------------------------------------------
\* The drawing backend, as far as this class uses it.

\* flow.Box(w, h).label(text, loc, ...).at((x, y))
Box(w, h, text, loc, x, y) ==
  [kind |-> "box", at |-> <<x, y>>, w |-> w, h |-> h, label |-> text,
   loc |-> loc]

\* flow.Arrow() / flow.Line() from `at` to `to`.
Connector(kind, at, to) == [kind |-> kind, at |-> at, to |-> to]

\* .at(p).right() / .down() / .left() / .up() followed by .length(len):
\* the end point of a connector of that length drawn from p.
EndOf(p, way, len) ==
  CASE way = "right" -> <<p[1] + len, p[2]>>
    [] way = "left"  -> <<p[1] - len, p[2]>>
    [] way = "up"    -> <<p[1], p[2] + len>>
    [] way = "down"  -> <<p[1], p[2] - len>>

\* .at(p).toy(q): a vertical connector from p to q's y.
toy(p, q) == <<p[1], q[2]>>

\* .at(p).tox(q): a horizontal connector from p to q's x.
tox(p, q) == <<q[1], p[2]>>

\* flow.RoundBox(cornerradius, w, h).label(label, rotate=th, color).theta(th).at((x, y))
RoundBox(cornerradius, w, h, text, th, fill, color, x, y) ==
  [kind |-> "stage", at |-> <<x, y>>, w |-> w, h |-> h, label |-> text,
   th |-> th, fill |-> fill, color |-> color, cornerradius |-> cornerradius]

\* getattr(flow_obj, anchor) of a box placed with .at((x, y)) while the
\* drawing direction is the default (right): the west side sits at (x, y).
Anchor(el, d) ==
  CASE d = "W" -> el.at
    [] d = "E" -> <<el.at[1] + el.w, el.at[2]>>
    [] d = "N" -> <<el.at[1] + el.w \div 2, el.at[2] + el.h \div 2>>
    [] d = "S" -> <<el.at[1] + el.w \div 2, el.at[2] - el.h \div 2>>

-----------------------------------------------------------------------------
\* Boxes.

\* The duplicate check left out.
HasKey_mut(key, data) == FALSE

\* `key not in self.boxes_data` / `key not in self.stage_boxes_data`, negated.
HasKey(key, data) == key \in DOMAIN data

\* The label formatted from the whole key, "--" suffix included.
label_text_mut(label, count) == Fmt(label, str(count))

\* label_text of _create_box and of update_label.
label_text(label, count) == Fmt(split(label)[1], str(count))

_create_box(label, count, x, y, wArg, hArg) ==
  LET w == IF isnan(wArg) THEN box_dimension[1] ELSE wArg[1]
      h == IF isnan(hArg) THEN box_dimension[2] ELSE hArg[1]
  IN  Box(w, h, label_text(label, count), "center", x, y)

add_consort_data(key, count, x, y, wArg, hArg) ==
  LET w == IF isnan(wArg) THEN <<box_dimension[1]>> ELSE wArg
      h == IF isnan(hArg) THEN <<box_dimension[2]>> ELSE hArg
      call == [op |-> "add_consort_data", key |-> key]
  IN  IF ~HasKey(key, boxes_data)
      THEN /\ boxes_data' = Put(boxes_data, key, <<count, x, y>>)
           /\ diagram' = Append(diagram, _create_box(key, count, x, y, w, h))
           /\ boxes_obj' = Put(boxes_obj, var_name_of(key), Len(diagram) + 1)
           /\ last' = call @@ [out |-> "ok", count |-> count]
           /\ UNCHANGED <<stage_boxes_obj, stage_boxes_data, other_data, unit>>
      ELSE /\ last' = call @@ [out |-> "ValueError"]
           /\ UNCHANGED state

\* flow_obj.label(label_text) on the element the handle refers to; the model
\* keeps the text of the latest label call as the element's label.
SetLabel(elems, handle, text) == [elems EXCEPT ![handle].label = text]

update_label(key, count) ==
  LET var_name == var_name_of(key)
      call == [op |-> "update_label", key |-> key]
  IN  IF var_name \in DOMAIN boxes_obj
      THEN /\ diagram' = SetLabel(diagram, boxes_obj[var_name],
                                  label_text(key, count))
           /\ last' = call @@ [out |-> "ok", count |-> count]
           /\ UNCHANGED <<boxes_obj, stage_boxes_obj, boxes_data,
                          stage_boxes_data, other_data, unit>>
      ELSE /\ last' = call @@ [out |-> "KeyError"]
           /\ UNCHANGED state

get_coordinates(label, anchor) ==
  LET var_name == var_name_of(label)
      call == [op |-> "get_coordinates", key |-> label, dir |-> anchor]
  IN  /\ IF var_name \in DOMAIN boxes_obj
         THEN last' = call @@ [out |-> "ok",
                               ret |-> Anchor(diagram[boxes_obj[var_name]], anchor)]
         ELSE last' = call @@ [out |-> "KeyError"]
      /\ UNCHANGED state

_create_stage_box(label, x, y, w, h, fill_color, font_color, cornerradius, th) ==
  RoundBox(cornerradius, w, h, label, th, fill_color, font_color, x, y)

add_stage_data(key, x, y, wArg, hArg, thArg) ==
  LET w == IF isnan(wArg) THEN stage_box_dimension[1] ELSE wArg[1]
      h == IF isnan(hArg) THEN stage_box_dimension[2] ELSE hArg[1]
      th == IF isnan(thArg) THEN stage_box_th ELSE thArg[1]
      call == [op |-> "add_stage_data", key |-> key]
  IN  IF ~HasKey(key, stage_boxes_data)
      THEN /\ stage_boxes_data' = Put(stage_boxes_data, key, <<x, y>>)
           /\ diagram' = Append(diagram,
                 _create_stage_box(key, x, y, w, h, "#9bc0fc", "#0762f7", 5, th))
           /\ stage_boxes_obj' = Put(stage_boxes_obj, var_name_of(key),
                                     Len(diagram) + 1)
           /\ last' = call @@ [out |-> "ok"]
           /\ UNCHANGED <<boxes_obj, boxes_data, other_data, unit>>
      ELSE /\ last' = call @@ [out |-> "ValueError"]
           /\ UNCHANGED state

-----------------------------------------------------------------------------
\* Arrows and lines.

\* An endpoint of add_arrow: (label, direction), two strings ...
AtLabel(label, d) == [k |-> "label", label |-> label, dir |-> d]

\* ... or (x, y), two numbers, each an int or a float.
Num(t, v) == [t |-> t, v |-> v]

AtCoord(x, y) == [k |-> "coord", x |-> x, y |-> y]

\* isinstance(e1, str) and isinstance(e2, str)
IsStrPair(e) == e.k = "label"

\* isinstance(n, float)
isfloat(n) == n.t = "float"

\* isinstance(e1, float) and isinstance(e2, float)
IsFloatPair(e) == e.k = "coord" /\ isfloat(e.x) /\ isfloat(e.y)

\* The arrow drawn from the end box to the start box.
arrow_at_to_mut(p, q) == Connector("arrow", q, p)

\* flow.Arrow().at(p).to(q)
arrow_at_to(p, q) == Connector("arrow", p, q)

NumConnectors ==
  Cardinality({i \in DOMAIN diagram : diagram[i].kind \in {"arrow", "line"}})

\* The connector add_arrow builds, or the exception it raises, or "return"
\* when no branch matches.
arrow_for(start, end) ==
  IF IsStrPair(start) /\ IsStrPair(end) THEN
    LET start_var_name == var_name_of(start.label)
        end_var_name == var_name_of(end.label)
    IN  IF start_var_name \notin DOMAIN boxes_obj
           \/ end_var_name \notin DOMAIN boxes_obj
        THEN [out |-> "KeyError"]
        ELSE [out |-> "ok",
              el |-> arrow_at_to(
                       Anchor(diagram[boxes_obj[start_var_name]], start.dir),
                       Anchor(diagram[boxes_obj[end_var_name]], end.dir))]
  ELSE IF IsStrPair(start) /\ IsFloatPair(end) THEN
    LET start_var_name == var_name_of(start.label) IN
    IF start_var_name \notin DOMAIN boxes_obj THEN [out |-> "KeyError"]
    ELSE
      LET start_obj == diagram[boxes_obj[start_var_name]]
          p == Anchor(start_obj, start.dir)
          length == IF start.dir \in {"E", "W"}
                    THEN Abs(end.x.v - p[1])
                    ELSE Abs(end.y.v - p[2])
          way == CASE start.dir = "E" -> "right"
                   [] start.dir = "S" -> "down"
                   [] start.dir = "W" -> "left"
                   [] OTHER -> "up"
      IN  [out |-> "ok",
           el |-> Connector("arrow", p, EndOf(p, way, length \div unit))]
  ELSE IF IsFloatPair(start) /\ IsStrPair(end) THEN
    LET end_var_name == var_name_of(end.label) IN
    IF end_var_name \notin DOMAIN boxes_obj THEN [out |-> "KeyError"]
    ELSE
      LET end_obj == diagram[boxes_obj[end_var_name]]
          q == Anchor(end_obj, end.dir)
          p == <<start.x.v, start.y.v>>
          length == IF end.dir \in {"E", "W"}
                    THEN Abs(start.x.v - q[1])
                    ELSE Abs(start.y.v - q[2])
          way == CASE end.dir = "E" -> "left"
                   [] end.dir = "S" -> "up"
                   [] end.dir = "W" -> "right"
                   [] OTHER -> "down"
      IN  [out |-> "ok",
           el |-> Connector("arrow", p, EndOf(p, way, length \div unit))]
  ELSE IF IsFloatPair(start) /\ IsFloatPair(end) THEN
    LET p == <<start.x.v, start.y.v>>
        q == <<end.x.v, end.y.v>>
    IN  IF p[1] = q[1] THEN [out |-> "ok", el |-> Connector("arrow", p, toy(p, q))]
        ELSE IF p[2] = q[2]
        THEN [out |-> "ok", el |-> Connector("arrow", p, tox(p, q))]
        ELSE [out |-> "ValueError"]
  ELSE [out |-> "return"]

add_arrow(start, end) ==
  LET r == arrow_for(start, end)
      call == [op |-> "add_arrow", start |-> start, end |-> end]
  IN  IF r.out = "ok"
      THEN /\ diagram' = Append(diagram, r.el)
           /\ last' = call @@ [out |-> "ok"]
           /\ UNCHANGED <<boxes_obj, stage_boxes_obj, boxes_data,
                          stage_boxes_data, other_data, unit>>
      ELSE /\ last' = call @@ [out |-> IF r.out = "return" THEN "ok" ELSE r.out]
           /\ UNCHANGED state

add_line(start_x, start_y, end_x, end_y) ==
  LET p == <<start_x.v, start_y.v>>
      q == <<end_x.v, end_y.v>>
      call == [op |-> "add_line", start |-> AtCoord(start_x, start_y),
               end |-> AtCoord(end_x, end_y)]
  IN  IF start_x.v = end_x.v
      THEN /\ diagram' = Append(diagram, Connector("line", p, toy(p, q)))
           /\ last' = call @@ [out |-> "ok"]
           /\ UNCHANGED <<boxes_obj, stage_boxes_obj, boxes_data,
                          stage_boxes_data, other_data, unit>>
      ELSE IF start_y.v = end_y.v
      THEN /\ diagram' = Append(diagram, Connector("line", p, tox(p, q)))
           /\ last' = call @@ [out |-> "ok"]
           /\ UNCHANGED <<boxes_obj, stage_boxes_obj, boxes_data,
                          stage_boxes_data, other_data, unit>>
      ELSE /\ last' = call @@ [out |-> "ValueError"]
           /\ UNCHANGED state

-----------------------------------------------------------------------------
\* Other data.  other_data[data_type][data_set] is a dict reason -> count,
\* held as the sequence of its <<reason, count>> items in insertion order.

\* `reason in d`
HasReason(d, reason) == \E i \in DOMAIN d : d[i][1] = reason

\* '--' in key
HasDD(key) == FindDD(key, 1) # 0

\* The tally of (data_set, data_label) in an existing dict of reasons:
\* a new reason is appended, an existing one is refused (<<>> stands for the
\* ValueError).
put_reason(d, reason, n) ==
  IF HasReason(d, reason) THEN <<>> ELSE Append(d, <<reason, n>>)

add_other_data(data_type, key, n) ==
  LET parts == split(key)
      call == [op |-> "add_other_data", data_type |-> data_type, key |-> key,
               n |-> n]
  IN  IF HasDD(key) /\ Len(parts) # 2
      THEN \* data_label, data_set = key.split('--') cannot unpack
           /\ last' = call @@ [out |-> "ValueError"]
           /\ UNCHANGED state
      ELSE
        LET data_label == parts[1]
            data_set == IF HasDD(key) THEN parts[2] ELSE <<"1">>
        IN  IF data_type \notin DOMAIN other_data
            THEN /\ other_data' = Put(other_data, data_type,
                                      (data_set :> <<<<data_label, n>>>>))
                 /\ last' = call @@ [out |-> "ok"]
                 /\ UNCHANGED <<diagram, boxes_obj, stage_boxes_obj, boxes_data,
                                stage_boxes_data, unit>>
            ELSE IF data_set \notin DOMAIN other_data[data_type]
            THEN /\ other_data' = Put(other_data, data_type,
                       Put(other_data[data_type], data_set,
                           <<<<data_label, n>>>>))
                 /\ last' = call @@ [out |-> "ok"]
                 /\ UNCHANGED <<diagram, boxes_obj, stage_boxes_obj, boxes_data,
                                stage_boxes_data, unit>>
            ELSE
              LET d == put_reason(other_data[data_type][data_set], data_label, n)
              IN  IF d # <<>>
                  THEN /\ other_data' = Put(other_data, data_type,
                             Put(other_data[data_type], data_set, d))
                       /\ last' = call @@ [out |-> "ok"]
                       /\ UNCHANGED <<diagram, boxes_obj, stage_boxes_obj,
                                      boxes_data, stage_boxes_data, unit>>
                  ELSE /\ last' = call @@ [out |-> "ValueError"]
                       /\ UNCHANGED state

\* len(value) in place of sum(value.values())
sum_values_mut(d) == Len(d)

\* sum(value.values())
RECURSIVE sum_values(_)
sum_values(d) == IF Len(d) = 0 THEN 0 ELSE d[1][2] + sum_values(Tail(d))

NL == "\n"

Bullet == <<"â", "€", "¢", " ">>

\* The lines f'â€¢ {reason} (n = {count})\n' of one dict of reasons, and the
\* longest of them with max_label_length carried along.
RECURSIVE reason_lines(_)
reason_lines(d) ==
  IF Len(d) = 0 THEN <<>>
  ELSE <<Bullet \o Fmt(d[1][1], str(d[1][2])) \o <<NL>>>> \o reason_lines(Tail(d))

RECURSIVE concat(_)
concat(ls) == IF Len(ls) = 0 THEN <<>> ELSE ls[1] \o concat(Tail(ls))

RECURSIVE max_len(_, _)
max_len(m, ls) == IF Len(ls) = 0 THEN m ELSE max_len(Max2(m, Len(ls[1])), Tail(ls))

\* str(total_count): total_count is None until a data type matches.
NoneStr == <<"N", "o", "n", "e">>

\* The loop of _generate_other_box over data_types[i..]: acc is
\* [label, max_label_length, total_count (as a string)].
RECURSIVE other_loop(_, _, _, _)
other_loop(data_types, i, target_set, acc) ==
  IF i > Len(data_types) THEN acc
  ELSE
    LET data_type == data_types[i]
        sets == IF data_type \in DOMAIN other_data
                THEN other_data[data_type] ELSE EmptyDict
    IN  IF target_set \in DOMAIN sets
        THEN LET value == sets[target_set]
                 total == str(sum_values(value))
                 head == Fmt(data_type, total) \o <<NL>>
                 lines == reason_lines(value)
             IN  other_loop(data_types, i + 1, target_set,
                   [label |-> acc.label \o head \o concat(lines),
                    max_label_length |->
                      max_len(Max2(acc.max_label_length, Len(head)), lines),
                    total_count |-> total])
        ELSE other_loop(data_types, i + 1, target_set, acc)

\* len(label.split('\n')) - 1
count_nl(text) == Cardinality({i \in DOMAIN text : text[i] = NL})

\* v // 1.5 for a non-negative int v (ratio is left at its default, 1.5).
floordiv_ratio(v) == (2 * v) \div 3

_generate_other_box(data_types, target_set, x, y, w, h) ==
  LET r == other_loop(data_types, 1, target_set,
             [label |-> <<>>, max_label_length |-> 0, total_count |-> NoneStr])
      parent_length == max_len(0,
        [i \in DOMAIN data_types |-> Fmt(data_types[i], r.total_count) \o <<NL>>])
      adj_w == Max2(w, floordiv_ratio(r.max_label_length \div parent_length) * w)
      adj_h == Max2(h, floordiv_ratio(count_nl(r.label)) * h)
  IN  Box(adj_w, adj_h, r.label, "left", x, y)

NumOtherBoxes ==
  Cardinality({i \in DOMAIN diagram :
                 diagram[i].kind = "box" /\ diagram[i].loc = "left"})

add_other_box(data_types, target_set, x, y, wArg, hArg) ==
  LET w == IF isnan(wArg) THEN box_dimension[1] ELSE wArg[1]
      h == IF isnan(hArg) THEN box_dimension[2] ELSE hArg[1]
      call == [op |-> "add_other_box", data_types |-> data_types,
               target_set |-> target_set]
      var_name == join_us([i \in DOMAIN data_types |-> var_name_of(data_types[i])])
                    \o <<"_">> \o target_set
  IN  IF Len(data_types) = 0
      THEN \* max() of an empty sequence
           /\ last' = call @@ [out |-> "ValueError"]
           /\ UNCHANGED state
      ELSE /\ diagram' = Append(diagram,
                 _generate_other_box(data_types, target_set, x, y, w, h))
           /\ boxes_obj' = Put(boxes_obj, var_name, Len(diagram) + 1)
           /\ last' = call @@ [out |-> "ok"]
           /\ UNCHANGED <<stage_boxes_obj, boxes_data, stage_boxes_data,
                          other_data, unit>>

-----------------------------------------------------------------------------
\* More arguments the callers pass.

\* (20, 10), (20, 5), (0, 5): the first two share x, the last two share y,
\* the first and the last share nothing.
Points == {<<Real(20), Real(10)>>, <<Real(20), Real(5)>>, <<Real(0), Real(5)>>}

NumTypes == {"int", "float"}

Coords ==
  {AtCoord(Num(t, p[1]), Num(t, p[2])) : t \in NumTypes, p \in Points}
    \cup {AtCoord(Num("float", Real(20)), Num("int", Real(10)))}

LabelEnds == {AtLabel(key, d) : key \in BoxKeys, d \in Dirs}

Endpoints == LabelEnds \cup Coords

DataTypeA == <<"a">>

DataTypeX == <<"X">>

DataTypes == {DataTypeA, DataTypeX}

\* The other-box is drawn at one place.
OtherBoxLayouts == {<<Real(16), Real(5), NaN, NaN>>}

\* "r", "r--b", "s--b" and the malformed "r--b--x".
OtherKeys == {<<"r">>, <<"r", "-", "-", "b">>, <<"s", "-", "-", "b">>,
              <<"r", "-", "-", "b", "-", "-", "x">>}

DataTypeLists == {<<>>, <<DataTypeA>>, <<DataTypeA, DataTypeX>>}

TargetSets == {<<"b">>, <<"1">>}

\* len(df)
RecordCounts == 1..MaxCount

-----------------------------------------------------------------------------

InitWith(units) ==
  /\ diagram = <<>>
  /\ boxes_obj = EmptyDict
  /\ stage_boxes_obj = EmptyDict
  /\ boxes_data = EmptyDict
  /\ stage_boxes_data = EmptyDict
  /\ other_data = EmptyDict
  /\ unit \in units
  /\ last = [op |-> "__init__", out |-> "ok"]

Init == InitWith(Units)

\* __init__ with unit left at its default.
InitDefault == InitWith({1})

AddConsortData ==
  \E key \in BoxKeys, count \in Counts, b \in BoxLayouts :
    add_consort_data(key, count, b[1], b[2], b[3], b[4])

UpdateLabel == \E key \in BoxKeys, count \in Counts : update_label(key, count)

GetCoordinates == \E key \in BoxKeys, d \in Dirs : get_coordinates(key, d)

AddStageData ==
  \E key \in StageKeys, p \in StagePositions, thArg \in ThetaArgs :
    add_stage_data(key, p[1], p[2], NaN, NaN, thArg)

AddArrow ==
  /\ NumConnectors < MaxConnectors
  /\ \E start \in Endpoints, end \in Endpoints : add_arrow(start, end)

AddLine ==
  /\ NumConnectors < MaxConnectors
  /\ \E start \in Coords, end \in Coords :
       add_line(start.x, start.y, end.x, end.y)

AddOtherData ==
  \E data_type \in DataTypes, key \in OtherKeys, n \in RecordCounts :
    add_other_data(data_type, key, n)

AddOtherBox ==
  /\ NumOtherBoxes < MaxOtherBoxes
  /\ \E data_types \in DataTypeLists, target_set \in TargetSets,
        b \in OtherBoxLayouts :
       add_other_box(data_types, target_set, b[1], b[2], b[3], b[4])

Next ==
  \/ AddConsortData
  \/ UpdateLabel
  \/ GetCoordinates
  \/ AddStageData
  \/ AddArrow
  \/ AddLine
  \/ AddOtherData
  \/ AddOtherBox

Spec == Init /\ [][Next]_vars

-----------------------------------------------------------------------------
\* Boxes, labels and stage boxes on their own.

\* add_consort_data at the default size.
AddBox ==
  \E key \in BoxKeys, count \in Counts :
    add_consort_data(key, count, Real(0), Real(10), NaN, NaN)

\* add_stage_data with every optional argument left at its default.
AddStage ==
  \E p \in StagePositions : add_stage_data(KeyAb, p[1], p[2], NaN, NaN, NaN)

NextBoxes == AddBox \/ UpdateLabel \/ AddStage

SpecBoxes == InitDefault /\ [][NextBoxes]_vars

-----------------------------------------------------------------------------
\* Boxes laid out on the canvas and the connectors between them.

PlaceBox ==
  \E key \in {KeyAb, KeySfx}, b \in BoxLayouts :
    add_consort_data(key, 1, b[1], b[2], b[3], b[4])

\* The spec's example: the key with a suffix on the upper row at the default
\* size, "A b" on the lower row.
PlaceRows ==
  \/ add_consort_data(KeySfx, 1, Real(0), Real(10), NaN, NaN)
  \/ add_consort_data(KeyAb, 1, Real(0), Real(5), <<Real(6)>>, <<Real(2)>>)

\* "a_b", which takes over the handle of "A b", on the upper row.
PlaceRespelled == add_consort_data(Key_a_b, 1, Real(0), Real(10), NaN, NaN)

ArrowBetweenBoxes ==
  /\ NumConnectors < MaxConnectors
  /\ \E start \in LabelEnds, end \in LabelEnds : add_arrow(start, end)

NextArrows == PlaceRows \/ PlaceRespelled \/ ArrowBetweenBoxes

SpecArrows == InitDefault /\ [][NextArrows]_vars

NextConnect == PlaceBox \/ AddArrow \/ AddLine \/ GetCoordinates

SpecConnect == Init /\ [][NextConnect]_vars

-----------------------------------------------------------------------------
\* The other-data tallies and the boxes generated from them.

\* Tallies under one category; the other category is only asked for.
TallyOtherData ==
  \E key \in OtherKeys, n \in RecordCounts : add_other_data(DataTypeA, key, n)

NextOther == TallyOtherData \/ AddOtherBox

SpecOther == InitDefault /\ [][NextOther]_vars

-----------------------------------------------------------------------------
\* Properties.

\* The element most recently added to the canvas.
Newest(d) == d[Len(d)]

\* The part of a key before its first "--", found by position.
NameBefore(key) ==
  IF \E i \in 1..(Len(key) - 1) : key[i] = "-" /\ key[i + 1] = "-"
  THEN LET i == CHOOSE j \in 1..(Len(key) - 1) :
                  /\ key[j] = "-" /\ key[j + 1] = "-"
                  /\ \A m \in 1..(j - 1) : ~(key[m] = "-" /\ key[m + 1] = "-")
       IN  SubSeq(key, 1, i - 1)
  ELSE key

\* "<name> (n = <c>)" for a one-digit count.
Rendered(name, c) == name \o <<" ", "(", "n", " ", "=", " ", Digit[c], ")">>

\* C1: add_consort_data with a key that is already a box key fails with
\* ValueError and changes nothing, add_stage_data with a key that is already
\* a stage key likewise, and a key new to its own namespace is accepted
\* whether or not the other namespace holds it.
C1_DuplicateKeyFails ==
  [][/\ (last'.op = "add_consort_data" /\ last'.key \in DOMAIN boxes_data)
          => (last'.out = "ValueError" /\ UNCHANGED state)
     /\ (last'.op = "add_stage_data" /\ last'.key \in DOMAIN stage_boxes_data)
          => (last'.out = "ValueError" /\ UNCHANGED state)
     /\ (last'.op = "add_consort_data" /\ last'.key \notin DOMAIN boxes_data)
          => (/\ last'.out = "ok"
              /\ DOMAIN boxes_data' = DOMAIN boxes_data \cup {last'.key}
              /\ UNCHANGED <<stage_boxes_data, stage_boxes_obj>>)
     /\ (last'.op = "add_stage_data" /\ last'.key \notin DOMAIN stage_boxes_data)
          => (/\ last'.out = "ok"
              /\ DOMAIN stage_boxes_data' = DOMAIN stage_boxes_data \cup {last'.key}
              /\ UNCHANGED <<boxes_data, boxes_obj>>)
    ]_vars

\* A second add_consort_data("A b") has just failed while "A b" is both a
\* box key and a stage key.
C1_Witness ==
  /\ last.op = "add_consort_data"
  /\ last.out = "ValueError"
  /\ last.key = KeyAb
  /\ KeyAb \in DOMAIN boxes_data
  /\ KeyAb \in DOMAIN stage_boxes_data

\* C2: a handle registered in boxes_obj under a normalized key is never
\* replaced or removed by a later operation.
C2_HandleNeverReplaced ==
  [][\A k \in DOMAIN boxes_obj :
       k \in DOMAIN boxes_obj' /\ boxes_obj'[k] = boxes_obj[k]]_vars

C10_RecordCountFollowsLabel ==
  (last.op = "update_label" /\ last.out = "ok" /\ last.key \in DOMAIN boxes_data)
    => boxes_data[last.key][1] = last.count

\* The box a label resolves to, when one is registered under its
\* normalized key.
Registered(label) == var_name_of(label) \in DOMAIN boxes_obj

BoxOf(label) == diagram[boxes_obj[var_name_of(label)]]

\* C4: add_arrow((A, dA), (B, dB)) between two registered boxes succeeds and
\* adds exactly one connector, from A's dA anchor to B's dB anchor, and
\* changes nothing else.
C4_ArrowBetweenBoxes ==
  [][(/\ last'.op = "add_arrow"
      /\ last'.start.k = "label" /\ last'.end.k = "label"
      /\ Registered(last'.start.label) /\ Registered(last'.end.label))
       => (/\ last'.out = "ok"
           /\ diagram' = Append(diagram,
                [kind |-> "arrow",
                 at |-> Anchor(BoxOf(last'.start.label), last'.start.dir),
                 to |-> Anchor(BoxOf(last'.end.label), last'.end.dir)])
           /\ UNCHANGED <<boxes_obj, stage_boxes_obj, boxes_data,
                          stage_boxes_data, other_data, unit>>)
    ]_vars

\* The spec's example: "A b--x" at (0, 10) and "A b" at (0, 5), then the
\* arrow ("A b--x", "S") -> ("A b", "N"), which runs from (7, 9.5) down to
\* (3, 6).
C4_Witness ==
  /\ last.op = "add_arrow"
  /\ last.out = "ok"
  /\ last.start = AtLabel(KeySfx, "S")
  /\ last.end = AtLabel(KeyAb, "N")
  /\ KeySfx \in DOMAIN boxes_data /\ KeyAb \in DOMAIN boxes_data
  /\ Newest(diagram) = [kind |-> "arrow", at |-> <<28, 38>>, to |-> <<12, 24>>]

BothCoords(call) == call.start.k = "coord" /\ call.end.k = "coord"

\* The two points share exactly one axis.
ShareOneAxis(call) ==
  (call.start.x.v = call.end.x.v) # (call.start.y.v = call.end.y.v)

\* C5: add_arrow between two coordinates, and add_line, add a connector when
\* the two points share exactly one axis, and otherwise fail with ValueError
\* and add nothing.
C5_OneSharedAxis ==
  [][(last'.op \in {"add_arrow", "add_line"} /\ BothCoords(last'))
       => IF ShareOneAxis(last')
          THEN last'.out = "ok" /\ Len(diagram') = Len(diagram) + 1
          ELSE last'.out = "ValueError" /\ UNCHANGED state
    ]_vars

\* C7: in the mixed forms of add_arrow the coordinate is an end of the
\* connector: label -> coordinate runs from the box's anchor to (x, y),
\* coordinate -> label from (x, y) to the box's anchor.
C7_CoordinateIsEndpoint ==
  [][(last'.op = "add_arrow" /\ last'.out = "ok")
       => /\ (/\ last'.start.k = "label" /\ last'.end.k = "coord"
              /\ isfloat(last'.end.x) /\ isfloat(last'.end.y))
               => (/\ Len(diagram') = Len(diagram) + 1
                   /\ Newest(diagram').at
                        = Anchor(BoxOf(last'.start.label), last'.start.dir)
                   /\ Newest(diagram').to = <<last'.end.x.v, last'.end.y.v>>)
          /\ (/\ last'.start.k = "coord" /\ last'.end.k = "label"
              /\ isfloat(last'.start.x) /\ isfloat(last'.start.y))
               => (/\ Len(diagram') = Len(diagram) + 1
                   /\ Newest(diagram').at = <<last'.start.x.v, last'.start.y.v>>
                   /\ Newest(diagram').to
                        = Anchor(BoxOf(last'.end.label), last'.end.dir))
    ]_vars

\* C8: an add_arrow call whose labels are all registered and that returns
\* normally has added exactly one connector to the canvas.
C8_ReturnMeansDrawn ==
  [][(/\ last'.op = "add_arrow" /\ last'.out = "ok"
      /\ \A e \in {last'.start, last'.end} : e.k = "label" => Registered(e.label))
       => (/\ Len(diagram') = Len(diagram) + 1
           /\ Newest(diagram').kind = "arrow")
    ]_vars

\* The labels a call looks up.
LabelsOf(call) ==
  CASE call.op \in {"update_label", "get_coordinates"} -> {call.key}
    [] call.op = "add_arrow" ->
         {e.label : e \in {x \in {call.start, call.end} : x.k = "label"}}
    [] OTHER -> {}

\* C9: update_label, get_coordinates and add_arrow called with a label no box
\* is registered under fail with KeyError, and a call that fails changes
\* nothing.
C9_UnknownKeyFails ==
  [][/\ (\E l \in LabelsOf(last') : ~Registered(l))
          => last'.out = "KeyError"
     /\ (last'.out \in {"KeyError", "ValueError"}) => UNCHANGED state
    ]_vars

\* The tally of (data_type, data_set, reason): <<count>>, or <<>> when the
\* triple has none.
TallyOf(od, data_type, data_set, reason) ==
  IF /\ data_type \in DOMAIN od
     /\ data_set \in DOMAIN od[data_type]
     /\ \E i \in DOMAIN od[data_type][data_set] :
          od[data_type][data_set][i][1] = reason
  THEN LET d == od[data_type][data_set]
       IN  <<d[CHOOSE i \in DOMAIN d : d[i][1] = reason][2]>>
  ELSE <<>>

Reasons == {<<"r">>, <<"s">>}

Subsets == {<<"1">>, <<"b">>, <<"x">>}

Triples == DataTypes \X Subsets \X Reasons

\* The sum of the counts of all reasons tallied under (data_type, data_set).
RECURSIVE SumOver(_, _, _, _)
SumOver(od, data_type, data_set, rs) ==
  IF rs = {} THEN 0
  ELSE LET r == CHOOSE x \in rs : TRUE
           t == TallyOf(od, data_type, data_set, r)
       IN  (IF t = <<>> THEN 0 ELSE t[1])
             + SumOver(od, data_type, data_set, rs \ {r})

\* The lines of a text, each without its "\n".
RECURSIVE LinesOf(_)
LinesOf(text) ==
  IF \E i \in DOMAIN text : text[i] = NL
  THEN LET i == CHOOSE j \in DOMAIN text :
                  text[j] = NL /\ \A m \in 1..(j - 1) : text[m] # NL
       IN  {SubSeq(text, 1, i - 1)} \cup LinesOf(SubSeq(text, i + 1, Len(text)))
  ELSE IF text = <<>> THEN {} ELSE {text}

\* The (reason, subset) a well-formed key names: "reason--subset", or
\* "reason" with subset "1".
KeyReason(key) == NameBefore(key)

KeySubset(key) ==
  IF NameBefore(key) = key THEN <<"1">>
  ELSE SubSeq(key, Len(NameBefore(key)) + 3, Len(key))

WellFormed(key) == NameBefore(KeySubset(key)) = KeySubset(key)

\* C6: a tally of a new (category, subset, reason) records its count and
\* leaves every other tally alone; a tally of a triple that is already there
\* fails with ValueError and changes nothing; and an other-box generated for
\* a subset shows, for each category that has the subset, the sum of the
\* counts of its reasons.
C6_Tallies ==
  [][/\ (last'.op = "add_other_data" /\ WellFormed(last'.key))
          => LET t == last'.data_type
                 s == KeySubset(last'.key)
                 r == KeyReason(last'.key)
             IN  IF TallyOf(other_data, t, s, r) # <<>>
                 THEN last'.out = "ValueError" /\ UNCHANGED state
                 ELSE /\ last'.out = "ok"
                      /\ TallyOf(other_data', t, s, r) = <<last'.n>>
                      /\ \A x \in Triples \ {<<t, s, r>>} :
                           TallyOf(other_data', x[1], x[2], x[3])
                             = TallyOf(other_data, x[1], x[2], x[3])
     /\ (last'.op = "add_other_box" /\ last'.out = "ok")
          => (/\ Len(diagram') = Len(diagram) + 1
              /\ \A i \in DOMAIN last'.data_types :
                   LET t == last'.data_types[i] IN
                   (t \in DOMAIN other_data
                      /\ last'.target_set \in DOMAIN other_data[t])
                     => (t \o <<" ", "(", "n", " ", "=", " ">>
                           \o str(SumOver(other_data, t, last'.target_set, Reasons))
                           \o <<")">>)
                          \in LinesOf(Newest(diagram').label))
     /\ (last'.op # "add_other_data") => UNCHANGED other_data
    ]_vars

\* An other-box for subset "b" has just been generated while category "a"
\* holds the reasons r and s under "b" with different counts, and a tally
\* under subset "1" besides: its header reads "a (n = 3)".
C6_Witness ==
  /\ last.op = "add_other_box"
  /\ last.out = "ok"
  /\ last.target_set = <<"b">>
  /\ TallyOf(other_data, DataTypeA, <<"b">>, <<"r">>) = <<1>>
  /\ TallyOf(other_data, DataTypeA, <<"b">>, <<"s">>) = <<2>>
  /\ TallyOf(other_data, DataTypeA, <<"1">>, <<"r">>) # <<>>
  /\ <<"a", " ", "(", "n", " ", "=", " ", "3", ")">>
       \in LinesOf(Newest(diagram).label)

=============================================================================
